---- MODULE Spec2Model ----
(***************************************************************************)
(* Model of TrigramModel (ml-assignment/src/ngram_model.py): tokenizer,    *)
(* sentence splitter, the counting done by fit, the backoff sampler and    *)
(* the generate loop.                                                      *)
(*                                                                         *)
(* Representation.  A text is a sequence of one-character strings.  A      *)
(* token is a sequence of characters: a word is the run of characters the  *)
(* regular expression matched, a terminator is the one-element sequence    *)
(* of its character, and the two markers are one-element sequences holding *)
(* the marker string.  A Counter is the sequence of its <<key, count>>     *)
(* items in insertion order (the order Python's dict keeps and the order   *)
(* random.choices sees); self.counts is the sequence of its                *)
(* <<context, Counter>> items in insertion order.                          *)
(***************************************************************************)
EXTENDS Integers, Sequences, FiniteSets, TLC

\* ---------------------------------------------------------------- bounds
MaxLen == 5
MaxShortLen == 1
MaxN == 3
RngMod == 8
MaxPairLen == 3

\* ------------------------------------------------------------- constants
\* def __init__(self, seed: int = 42)
DefaultSeed == 42

SENT_START == << "<s>" >>
SENT_END == << "</s>" >>

\* What _sample_from_counter produces on an empty Counter: zip(*()) yields
\* nothing to unpack and the assignment raises ValueError.
ValueError == << "ValueError" >>

\* Characters of the model's texts: a lower-case letter, an upper-case
\* letter, a separator and a sentence terminator.
Chars == {"a", "B", " ", "."}

\* [A-Za-z0-9'] restricted to the characters that can occur.
WordChars == {"a", "b", "B"}

\* ('.', '!', '?')
Terminators == {".", "!", "?"}

Instances == {1, 2}

\* --------------------------------------------------------- tokenization
\* str.lower()
Lower(c) == IF c = "B" THEN "b" ELSE c

\* str.upper() of one character
Upper(c) == IF c = "a" THEN "A" ELSE IF c = "b" THEN "B" ELSE c

\* _TOKEN_RE.findall: left to right, a maximal run of word characters or a
\* single terminator; every other character only separates.
RECURSIVE FindAll(_, _, _)
FindAll(text, run, acc) ==
  IF text = << >>
  THEN IF run = << >> THEN acc ELSE Append(acc, run)
  ELSE LET c == Head(text)
           flushed == IF run = << >> THEN acc ELSE Append(acc, run)
       IN IF c \in WordChars
          THEN FindAll(Tail(text), Append(run, c), acc)
          ELSE IF c \in Terminators
               THEN FindAll(Tail(text), << >>, Append(flushed, << c >>))
               ELSE FindAll(Tail(text), << >>, flushed)

_tokenize(text) ==
  FindAll([j \in 1..Len(text) |-> Lower(text[j])], << >>, << >>)

IsTerminatorToken(t) == Len(t) = 1 /\ t[1] \in Terminators

\* mutant of FilterPunct: the terminator stays in the sentence
FilterPunctKept(cur) == cur

\* [tok for tok in cur if tok not in ('.', '!', '?')]
FilterPunct(cur) == SelectSeq(cur, LAMBDA tok : ~IsTerminatorToken(tok))

RECURSIVE SplitLoop(_, _, _)
SplitLoop(tokens, cur, sentences) ==
  IF tokens = << >>
  THEN IF cur # << >> THEN Append(sentences, FilterPunct(cur)) ELSE sentences
  ELSE LET t == Head(tokens)
           cur1 == Append(cur, t)
       IN IF IsTerminatorToken(t)
          THEN SplitLoop(Tail(tokens), << >>, Append(sentences, FilterPunct(cur1)))
          ELSE SplitLoop(Tail(tokens), cur1, sentences)

_split_sentences(tokens) == SplitLoop(tokens, << >>, << >>)

\* ------------------------------------------------------------- Counters
Has(c, k) == \E j \in 1..Len(c) : c[j][1] = k

\* Counter.__getitem__: a missing key reads as 0 and is not inserted.
\* Also dict lookup of a present context in self.counts.
Get(c, k) == IF Has(c, k) THEN c[CHOOSE j \in 1..Len(c) : c[j][1] = k][2] ELSE 0

\* counter[k] += n
Add(c, k, n) ==
  IF Has(c, k)
  THEN [j \in 1..Len(c) |-> IF c[j][1] = k THEN << k, c[j][2] + n >> ELSE c[j]]
  ELSE Append(c, << k, n >>)

\* self.counts[context][next_word] += 1 on a defaultdict(Counter)
AddNested(cs, context, next_word) ==
  IF Has(cs, context)
  THEN [j \in 1..Len(cs) |->
          IF cs[j][1] = context
          THEN << context, Add(cs[j][2], next_word, 1) >> ELSE cs[j]]
  ELSE Append(cs, << context, Add(<< >>, next_word, 1) >>)

\* Counter.update(other): add other's counts, in other's order
RECURSIVE Update(_, _)
Update(agg, ctr) ==
  IF ctr = << >> THEN agg
  ELSE Update(Add(agg, ctr[1][1], ctr[1][2]), Tail(ctr))

RECURSIVE Total(_)
Total(c) == IF c = << >> THEN 0 ELSE c[1][2] + Total(Tail(c))

Keys(c) == {c[j][1] : j \in 1..Len(c)}

\* ------------------------------------------------------------- training
\* mutant of Clear: the table is not cleared before the rebuild
ClearKept(c) == c

\* .clear()
Clear(c) == << >>

\* mutant of SkipSentence: empty sentences are padded and counted
SkipNone(sent) == FALSE

\* if not sent: continue
SkipSentence(sent) == sent = << >>

\* mutant of CountsAsUnigram: the start markers are counted too
CountsAsUnigramAll(w) == TRUE

\* if w != SENT_START
CountsAsUnigram(w) == w # SENT_START

\* mutant of TrigramLast: the loop stops one position early
TrigramLastShort(padded) == Len(padded) - 3

\* range(len(padded) - 2): 0-based 0..len-3, here 1-based 1..len-2
TrigramLast(padded) == Len(padded) - 2

\* mutant of BigramKey: keyed by the first word of the context
BigramKeyFirst(context, next_word) == << context[1], next_word >>

\* (context[1], next_word) in Python's 0-based indexing
BigramKey(context, next_word) == << context[2], next_word >>

RECURSIVE UnigramLoop(_, _)
UnigramLoop(uc, padded) ==
  IF padded = << >> THEN uc
  ELSE UnigramLoop(IF CountsAsUnigram(Head(padded)) THEN Add(uc, Head(padded), 1) ELSE uc,
                   Tail(padded))

RECURSIVE TrigramLoop(_, _, _)
TrigramLoop(T, padded, j) ==
  IF j > TrigramLast(padded) THEN T
  ELSE LET context == << padded[j], padded[j + 1] >>
           next_word == padded[j + 2]
       IN TrigramLoop([T EXCEPT
                         !.counts = AddNested(@, context, next_word),
                         !.bigram_counts = Add(@, BigramKey(context, next_word), 1)],
                      padded, j + 1)

Padded(sent) == << SENT_START, SENT_START >> \o sent \o << SENT_END >>

\* body of "for sent in sentences"
FitSentence(T, sent) ==
  IF SkipSentence(sent) THEN T
  ELSE LET padded == Padded(sent)
       IN TrigramLoop([T EXCEPT !.unigram_counts = UnigramLoop(@, padded)], padded, 1)

RECURSIVE FitLoop(_, _)
FitLoop(T, sentences) ==
  IF sentences = << >> THEN T
  ELSE FitLoop(FitSentence(T, Head(sentences)), Tail(sentences))

\* fit(text) applied to tables T
FitTables(T, text) ==
  LET tokens == _tokenize(text)
      sentences == _split_sentences(tokens)
      cleared == [counts |-> Clear(T.counts),
                  bigram_counts |-> Clear(T.bigram_counts),
                  unigram_counts |-> Clear(T.unigram_counts)]
  IN FitLoop(cleared, sentences)

\* __init__: the three tables of a freshly constructed model
NewTables == [counts |-> << >>, bigram_counts |-> << >>, unigram_counts |-> << >>]

\* ------------------------------------------------------------- sampling
\* random.Random: the generator's state is a number below RngMod, a call
\* of random() moves it one step along a full-period congruential cycle
\* and returns the new state, read as the fraction state / RngMod.
NextRng(s) == (5 * s + 1) % RngMod

\* random.Random(seed)
SeedState(seed) == seed % RngMod

\* mutant of RngSlot: every instance draws from one shared generator
RngSlotShared(i) == 1

\* self._random: the generator an instance draws from is its own
RngSlot(i) == i

\* random.choices(words, weights, k=1)[0]: bisect the cumulative weights
\* at random() * total; r is the value random() returned.
Choices(counter, r) ==
  LET n == Len(counter)
      total == Total(counter)
      below == {j \in 1..(n - 1) : Total(SubSeq(counter, 1, j)) * RngMod <= r * total}
  IN counter[1 + Cardinality(below)][1]

\* _sample_from_counter(counter) with the generator in state s
_sample_from_counter(counter, s) ==
  IF counter = << >>
  THEN [word |-> ValueError, rng |-> s]
  ELSE [word |-> Choices(counter, NextRng(s)), rng |-> NextRng(s)]

\* mutant of CountsAfterLookup: self.counts[context] is read without the
\* membership test, and the defaultdict inserts an empty Counter
CountsAfterLookupInsert(cs, context) ==
  IF Has(cs, context) THEN cs ELSE Append(cs, << context, << >> >>)

\* "context in self.counts and len(self.counts[context]) > 0": the
\* membership test comes first, so the defaultdict is never read at a
\* missing key and self.counts is left as it was.
CountsAfterLookup(cs, context) == cs

\* for (c1, c2), ctr in self.counts.items(): if c2 == w2: agg.update(ctr)
RECURSIVE Aggregate(_, _, _)
Aggregate(cs, w2, agg) ==
  IF cs = << >> THEN agg
  ELSE Aggregate(Tail(cs), w2,
                 IF cs[1][1][2] = w2 THEN Update(agg, cs[1][2]) ELSE agg)

\* _backoff_sample(context) on tables T with the generator in state s;
\* level names the branch that produced the word.
_backoff_sample(T, context, s) ==
  LET cs == CountsAfterLookup(T.counts, context)
      agg == Aggregate(cs, context[2], << >>)
  IN IF Has(T.counts, context) /\ Len(Get(T.counts, context)) > 0
     THEN [level |-> "trigram", counts |-> cs]
            @@ _sample_from_counter(Get(T.counts, context), s)
     ELSE IF agg # << >>
     THEN [level |-> "bigram", counts |-> cs] @@ _sample_from_counter(agg, s)
     ELSE IF T.unigram_counts # << >>
     THEN [level |-> "unigram", counts |-> cs]
            @@ _sample_from_counter(T.unigram_counts, s)
     ELSE [level |-> "none", counts |-> cs, word |-> SENT_END, rng |-> s]

\* mutant of LoopContinues: the loop runs once more than max_length
LoopContinuesOneMore(k, n) == k <= n

\* for _ in range(max_length): is there an iteration after k of them
LoopContinues(k, n) == k < n

\* " ".join(output_tokens)
RECURSIVE Join(_)
Join(toks) ==
  IF Len(toks) = 1 THEN toks[1] ELSE toks[1] \o << " " >> \o Join(Tail(toks))

\* the tail of generate: "" for no tokens, else the joined tokens with the
\* first character upper-cased
Detokenize(toks) ==
  IF toks = << >> THEN << >>
  ELSE LET text == Join(toks) IN << Upper(text[1]) >> \o Tail(text)

\* ---------------------------------------------------------------- state
VARIABLES
  counts,          \* self.counts, per instance
  bigram_counts,   \* self.bigram_counts, per instance
  unigram_counts,  \* self.unigram_counts, per instance
  rng,             \* state of self._random, per instance
  pc,              \* "idle" (between calls), "sampling" (inside generate's
                   \* loop), "stopped" (generate is returning), "sampled"
                   \* (_sample_from_counter is returning)
  max_length,      \* generate's argument
  context,         \* generate's local
  output_tokens,   \* generate's local
  steps,           \* iterations of generate's loop taken in this call
  result,          \* the string the last generate returned
  levels,          \* backoff branch taken at each iteration of this call
  lastFit,         \* the text of the last fit, if any, and whether that fit
                   \* found tables already filled
  direct,          \* the last direct call of _sample_from_counter
  pending          \* calls issued to an instance and not yet made

tables == << counts, bigram_counts, unigram_counts >>
locals == << max_length, context, output_tokens, steps, result, levels >>
vars == << counts, bigram_counts, unigram_counts, rng, pc, max_length, context,
           output_tokens, steps, result, levels, lastFit, direct, pending >>

T(i) == [counts |-> counts[i], bigram_counts |-> bigram_counts[i],
         unigram_counts |-> unigram_counts[i]]

Texts(n) == UNION {[1..k -> Chars] : k \in 0..n}
AllTexts == Texts(MaxLen)
ShortTexts == Texts(MaxShortLen)
PairTexts == Texts(MaxPairLen)
MaxLengths == (0 - 1)..MaxN
Seeds == 0..(RngMod - 1)

NoDirect == [called |-> FALSE, arg |-> << >>, ret |-> << >>]
NeverFit == [fitted |-> FALSE, text |-> << >>, refit |-> FALSE]

\* TrigramModel(seed), twice with the same seed
Construct(seed) ==
  /\ counts = [i \in Instances |-> NewTables.counts]
  /\ bigram_counts = [i \in Instances |-> NewTables.bigram_counts]
  /\ unigram_counts = [i \in Instances |-> NewTables.unigram_counts]
  /\ rng = [i \in Instances |-> SeedState(seed)]
  /\ pc = [i \in Instances |-> "idle"]
  /\ max_length = [i \in Instances |-> 0]
  /\ context = [i \in Instances |-> << SENT_START, SENT_START >>]
  /\ output_tokens = [i \in Instances |-> << >>]
  /\ steps = [i \in Instances |-> 0]
  /\ result = [i \in Instances |-> << >>]
  /\ levels = [i \in Instances |-> << >>]
  /\ lastFit = [i \in Instances |-> NeverFit]
  /\ direct = NoDirect
  /\ pending = [i \in Instances |-> << >>]

\* TrigramModel(), as generate.py constructs it
Init == Construct(DefaultSeed)

\* TrigramModel(seed) for any seed
InitPair == \E seed \in Seeds : Construct(seed)

\* no call is in progress on instance i: generate's locals are gone
ResetLocals(i) ==
  /\ pc' = [pc EXCEPT ![i] = "idle"]
  /\ max_length' = [max_length EXCEPT ![i] = 0]
  /\ context' = [context EXCEPT ![i] = << SENT_START, SENT_START >>]
  /\ output_tokens' = [output_tokens EXCEPT ![i] = << >>]
  /\ steps' = [steps EXCEPT ![i] = 0]
  /\ result' = [result EXCEPT ![i] = << >>]
  /\ levels' = [levels EXCEPT ![i] = << >>]

\* fit(text) on instance i
FitCall(i, text) ==
  /\ pc[i] = "idle"
  /\ LET new == FitTables(T(i), text)
     IN /\ counts' = [counts EXCEPT ![i] = new.counts]
        /\ bigram_counts' = [bigram_counts EXCEPT ![i] = new.bigram_counts]
        /\ unigram_counts' = [unigram_counts EXCEPT ![i] = new.unigram_counts]
  /\ lastFit' = [lastFit EXCEPT ![i] =
                    [fitted |-> TRUE, text |-> text, refit |-> counts[i] # << >>]]
  /\ ResetLocals(i)
  /\ UNCHANGED << rng, direct >>

\* generate(max_length = n) on instance i, up to the loop's first test
GenerateCall(i, n) ==
  /\ pc[i] = "idle"
  /\ max_length' = [max_length EXCEPT ![i] = n]
  /\ context' = [context EXCEPT ![i] = << SENT_START, SENT_START >>]
  /\ output_tokens' = [output_tokens EXCEPT ![i] = << >>]
  /\ steps' = [steps EXCEPT ![i] = 0]
  /\ levels' = [levels EXCEPT ![i] = << >>]
  /\ pc' = [pc EXCEPT ![i] = IF LoopContinues(0, n) THEN "sampling" ELSE "stopped"]
  /\ result' = [result EXCEPT ![i] = Detokenize(<< >>)]
  /\ UNCHANGED << tables, rng, lastFit, direct >>

\* one iteration of generate's loop on instance i, and the return when it
\* is the last one
GenerateStep(i) ==
  /\ pc[i] = "sampling"
  /\ LET b == _backoff_sample(T(i), context[i], rng[RngSlot(i)])
         stop == b.word = SENT_END
         out == IF stop THEN output_tokens[i] ELSE Append(output_tokens[i], b.word)
         done == stop \/ ~LoopContinues(steps[i] + 1, max_length[i])
     IN /\ counts' = [counts EXCEPT ![i] = b.counts]
        /\ rng' = [rng EXCEPT ![RngSlot(i)] = b.rng]
        /\ levels' = [levels EXCEPT ![i] = Append(@, b.level)]
        /\ steps' = [steps EXCEPT ![i] = @ + 1]
        /\ output_tokens' = [output_tokens EXCEPT ![i] = out]
        /\ context' = [context EXCEPT ![i] =
                         IF stop THEN @ ELSE << @[2], b.word >>]
        /\ pc' = [pc EXCEPT ![i] = IF done THEN "stopped" ELSE "sampling"]
        /\ result' = [result EXCEPT ![i] = IF done THEN Detokenize(out) ELSE @]
  /\ UNCHANGED << bigram_counts, unigram_counts, max_length, lastFit, direct >>

\* _sample_from_counter(counter) called directly on instance i
SampleCall(i, counter) ==
  /\ pc[i] = "idle"
  /\ LET r == _sample_from_counter(counter, rng[RngSlot(i)])
     IN /\ direct' = [called |-> TRUE, arg |-> counter, ret |-> r.word]
        /\ rng' = [rng EXCEPT ![RngSlot(i)] = r.rng]
  /\ pc' = [pc EXCEPT ![i] = "sampled"]
  /\ UNCHANGED << tables, locals, lastFit >>

\* generate or _sample_from_counter hands its value to the caller of
\* instance i, which may then make its next call
ReturnCall(i) ==
  /\ pc[i] \in {"stopped", "sampled"}
  /\ ResetLocals(i)
  /\ direct' = NoDirect
  /\ UNCHANGED << tables, rng, lastFit >>

\* ------------------------------------------- one instance, called freely
\* Texts of every length up to MaxLen are fitted on a model that is new or
\* holds a short text; on every model a short text is fitted and the last
\* text is fitted again.
Fit ==
  /\ pc[1] = "idle"
  /\ \E text \in (IF lastFit[1].text \in ShortTexts
                  THEN AllTexts ELSE ShortTexts \cup {lastFit[1].text}) :
       FitCall(1, text)
  /\ UNCHANGED pending
Generate ==
  /\ pc[1] = "idle"
  /\ \E n \in MaxLengths : GenerateCall(1, n)
  /\ UNCHANGED pending
Step == GenerateStep(1) /\ UNCHANGED pending
Sample ==
  /\ pc[1] = "idle"
  /\ \E counter \in {<< >>, unigram_counts[1]} : SampleCall(1, counter)
  /\ UNCHANGED pending

Return == ReturnCall(1) /\ UNCHANGED pending

Next == Fit \/ Generate \/ Step \/ Sample \/ Return

Spec == Init /\ [][Next]_vars

\* ------------------------- two instances, same seed, same call sequence
FitOp(text) == [op |-> "fit", text |-> text, max_length |-> 0]
GenerateOp(n) == [op |-> "generate", text |-> << >>, max_length |-> n]
Calls == {FitOp(text) : text \in PairTexts} \cup {GenerateOp(n) : n \in MaxLengths}

\* the caller makes its next call on both instances
Issue ==
  /\ \A i \in Instances : pending[i] = << >> /\ pc[i] = "idle"
  /\ \E call \in Calls : pending' = [i \in Instances |-> << call >>]
  /\ UNCHANGED << tables, rng, pc, locals, lastFit, direct >>

PairFit ==
  \E i \in Instances :
    /\ pending[i] # << >> /\ pending[i][1].op = "fit"
    /\ FitCall(i, pending[i][1].text)
    /\ pending' = [pending EXCEPT ![i] = << >>]

PairGenerate ==
  \E i \in Instances :
    /\ pending[i] # << >> /\ pending[i][1].op = "generate"
    /\ GenerateCall(i, pending[i][1].max_length)
    /\ pending' = [pending EXCEPT ![i] = << >>]

PairStep == \E i \in Instances : GenerateStep(i) /\ UNCHANGED pending

PairReturn == \E i \in Instances : ReturnCall(i) /\ UNCHANGED pending

NextPair == Issue \/ PairFit \/ PairGenerate \/ PairStep \/ PairReturn

SpecPair == InitPair /\ [][NextPair]_vars

\* ================================================================ claims
Sentences(text) == _split_sentences(_tokenize(text))
NonEmptySentences(text) == SelectSeq(Sentences(text), LAMBDA sent : sent # << >>)

\* the last fit of instance i saw at least one non-empty sentence
Trained(i) == lastFit[i].fitted /\ NonEmptySentences(lastFit[i].text) # << >>

\* trigram count of context -> next_word, zero when absent
TriCount(cs, c, next_word) ==
  IF Has(cs, c) THEN Get(Get(cs, c), next_word) ELSE 0

\* ---------------------------------------------------------------------
\* C1: after any sequence of fit calls, with generate calls anywhere in
\* between, the three tables are those one fit of the last text builds on
\* a freshly constructed model: nothing is counted twice and nothing is
\* left of an earlier text.
C1_RetrainDiscards ==
  \A i \in Instances :
    T(i) = IF lastFit[i].fitted THEN FitTables(NewTables, lastFit[i].text)
           ELSE NewTables

\* a fit that found filled tables has run, then a generate call
C1_Witness ==
  /\ lastFit[1].refit
  /\ counts[1] # << >>
  /\ pc[1] = "stopped"
  /\ output_tokens[1] # << >>

\* ---------------------------------------------------------------------
RECURSIVE SumLenPlusOne(_)
SumLenPlusOne(sentences) ==
  IF sentences = << >> THEN 0
  ELSE Len(Head(sentences)) + 1 + SumLenPlusOne(Tail(sentences))

\* positions of the padded sentences at which c is the two-token left
\* context of a trigram
Positions(sentences, c) ==
  UNION {{<< n, k >> : k \in {k \in 1..(Len(Padded(sentences[n])) - 2) :
                                 /\ Padded(sentences[n])[k] = c[1]
                                 /\ Padded(sentences[n])[k + 1] = c[2]}}
         : n \in 1..Len(sentences)}

\* C2: the unigram counts sum to the number of non-start tokens of the
\* padded non-empty sentences (length + 1 each), and the counts under each
\* context of the trigram table sum to the number of positions where that
\* context is the left context of a trigram; empty sentences add nothing.
C2_CountConservation ==
  \A i \in Instances :
    LET sentences == NonEmptySentences(lastFit[i].text)
    IN /\ Total(unigram_counts[i]) = SumLenPlusOne(sentences)
       /\ \A j \in 1..Len(counts[i]) :
            Total(counts[i][j][2]) = Cardinality(Positions(sentences, counts[i][j][1]))

\* a text with an empty sentence, two non-empty ones and a context seen twice
C2_Witness ==
  /\ lastFit[1].fitted
  /\ \E n \in 1..Len(Sentences(lastFit[1].text)) : Sentences(lastFit[1].text)[n] = << >>
  /\ Len(NonEmptySentences(lastFit[1].text)) >= 2
  /\ \E j \in 1..Len(counts[1]) : Total(counts[1][j][2]) >= 2

\* ---------------------------------------------------------------------
\* C3: a step of generate (its entry and every iteration of its loop)
\* leaves the three tables, the key set of the trigram table included, as
\* they were; the tables change only in a fit.
C3_GenerateReadOnly ==
  [][\A i \in Instances :
       /\ (pc[i] \in {"idle", "sampling"} /\ pc'[i] \in {"sampling", "stopped"})
            => T(i)' = T(i)
       /\ T(i)' # T(i) => (pc[i] = "idle" /\ pc'[i] = "idle" /\ lastFit'[i].fitted)]_vars

\* generate has run its loop at least twice on a model with filled tables
C3_Witness ==
  /\ pc[1] = "stopped"
  /\ steps[1] >= 2
  /\ counts[1] # << >>

\* ---------------------------------------------------------------------
Max0(n) == IF n > 0 THEN n ELSE 0

\* words of a returned string: one more than its separators
WordCount(str) ==
  IF str = << >> THEN 0
  ELSE 1 + Cardinality({k \in 1..Len(str) : str[k] = " "})

\* C4: generate(max_length = N) takes at most max(N, 0) sampling steps; it
\* is in its loop only while fewer than N steps are taken and no end
\* marker was sampled, and a further step is then possible; it has stopped
\* exactly when the end marker was sampled or N steps are taken; the
\* output has at most max(N, 0) words and is empty for N <= 0.
C4_BoundedTermination ==
  \A i \in Instances :
    /\ steps[i] <= Max0(max_length[i])
    /\ Len(output_tokens[i]) <= Max0(max_length[i])
    /\ pc[i] = "sampling" =>
         /\ steps[i] < max_length[i]
         /\ Len(output_tokens[i]) = steps[i]
         /\ ENABLED GenerateStep(i)
    /\ pc[i] = "stopped" =>
         /\ \/ Len(output_tokens[i]) = steps[i] - 1
            \/ Len(output_tokens[i]) = steps[i] /\ steps[i] = Max0(max_length[i])
         /\ result[i] = Detokenize(output_tokens[i])
         /\ WordCount(result[i]) <= Max0(max_length[i])
         /\ max_length[i] <= 0 => result[i] = << >> /\ steps[i] = 0

\* generate was cut off by max_length after at least two words
C4_Witness ==
  /\ pc[1] = "stopped"
  /\ max_length[1] >= 2
  /\ steps[1] = max_length[1]
  /\ Len(output_tokens[1]) = max_length[1]

\* ---------------------------------------------------------------------
Degenerate(i) == ~Trained(i)

\* C5: on a model never trained, or last fitted on a text without a
\* non-empty sentence, the three tables are empty, the backoff sampler
\* returns the end marker without drawing (the generator stays where it
\* was), and generate returns the empty string for every max_length.
C5_DegenerateTotal ==
  \A i \in Instances :
    Degenerate(i) =>
      /\ T(i) = NewTables
      /\ \A c \in {<< SENT_START, SENT_START >>, context[i]} :
           _backoff_sample(T(i), c, rng[i]) =
             [level |-> "none", counts |-> << >>, word |-> SENT_END, rng |-> rng[i]]
      /\ \A k \in 1..Len(levels[i]) : levels[i][k] = "none"
      /\ output_tokens[i] = << >>
      /\ pc[i] = "stopped" => result[i] = << >>

\* generate has sampled once on a model fitted on punctuation only
C5_Witness ==
  /\ lastFit[1].fitted
  /\ lastFit[1].text # << >>
  /\ Degenerate(1)
  /\ pc[1] = "stopped"
  /\ max_length[1] >= 1
  /\ levels[1] = << "none" >>

\* ---------------------------------------------------------------------
\* C6: _sample_from_counter called directly with an empty mapping returns
\* the end marker.
C6_EmptyMappingReturnsEnd ==
  (direct.called /\ direct.arg = << >>) => direct.ret = SENT_END

\* ---------------------------------------------------------------------
\* word tokens of a text
TrainingWords(text) ==
  {t \in {_tokenize(text)[k] : k \in 1..Len(_tokenize(text))} : ~IsTerminatorToken(t)}

\* C7: no token appended to the output is a sentence terminator, the start
\* marker or the end marker; each is a word of the last training text; the
\* returned string holds no terminator.
C7_CleanVocabulary ==
  \A i \in Instances :
    /\ \A k \in 1..Len(output_tokens[i]) :
         /\ ~IsTerminatorToken(output_tokens[i][k])
         /\ output_tokens[i][k] \notin {SENT_START, SENT_END}
         /\ output_tokens[i][k] \in TrainingWords(lastFit[i].text)
    /\ \A k \in 1..Len(result[i]) : result[i][k] \notin Terminators

\* two words were generated from a text that holds a terminator
C7_Witness ==
  /\ pc[1] = "stopped"
  /\ Len(output_tokens[1]) >= 2
  /\ \E k \in 1..Len(lastFit[1].text) : lastFit[1].text[k] \in Terminators

\* ---------------------------------------------------------------------
\* instance i makes the fit call issued to it
FitStepOf(i) ==
  /\ pending[i] # << >>
  /\ pending[i][1].op = "fit"
  /\ pending'[i] = << >>

\* both instances have made every call issued and are returning a string
BothReturning == \A i \in Instances : pending[i] = << >> /\ pc[i] = "stopped"

\* C8: two instances built with the same seed and given the same calls
\* return the same string at every generate call; a fit leaves the
\* instance's generator where it was, and every other step leaves the
\* tables as they were.
C8_Reproducible ==
  [][/\ BothReturning' => result'[1] = result'[2]
     /\ \A i \in Instances :
          /\ FitStepOf(i) => rng'[i] = rng[i]
          /\ ~FitStepOf(i) => T(i)' = T(i)]_vars

\* both instances return the same non-empty string drawn from a start
\* context with two candidates
C8_Witness ==
  /\ BothReturning
  /\ result[1] = result[2]
  /\ result[1] # << >>
  /\ counts[1] # << >>
  /\ Len(counts[1][1][2]) >= 2

\* ---------------------------------------------------------------------
\* sum over every context whose second token is w2 of its count of next_word
RECURSIVE MarginalCount(_, _, _)
MarginalCount(cs, w2, next_word) ==
  IF cs = << >> THEN 0
  ELSE (IF cs[1][1][2] = w2 THEN Get(cs[1][2], next_word) ELSE 0)
       + MarginalCount(Tail(cs), w2, next_word)

\* every token a table mentions
TokensOf(i) ==
  {SENT_START, SENT_END} \cup Keys(unigram_counts[i])
    \cup {counts[i][j][1][2] : j \in 1..Len(counts[i])}

\* C9: the bigram count of (w2, n) is the sum over w1 of the trigram count
\* of (w1, w2) -> n, and the counter the bigram backoff level aggregates
\* for w2 holds exactly the bigram table's counts for w2.
C9_BigramIsMarginal ==
  \A i \in Instances :
    /\ Keys(bigram_counts[i]) \subseteq TokensOf(i) \X TokensOf(i)
    /\ \A w2 \in TokensOf(i) :
         LET agg == Aggregate(counts[i], w2, << >>)
         IN /\ \A n \in TokensOf(i) :
                 /\ Get(bigram_counts[i], << w2, n >>) = MarginalCount(counts[i], w2, n)
                 /\ Get(agg, n) = Get(bigram_counts[i], << w2, n >>)
            /\ Keys(agg) = {n \in TokensOf(i) : Has(bigram_counts[i], << w2, n >>)}

\* a bigram count that sums the counts of two different contexts
C9_Witness ==
  \E j, k \in 1..Len(counts[1]) :
    /\ j # k
    /\ counts[1][j][1][2] = counts[1][k][1][2]
    /\ \E n \in Keys(counts[1][j][2]) \cap Keys(counts[1][k][2]) :
         Get(bigram_counts[1], << counts[1][j][1][2], n >>) >= 2

\* ---------------------------------------------------------------------
PaddedOutput(i) == << SENT_START, SENT_START >> \o output_tokens[i]

\* C10: on a model whose last fit saw a non-empty sentence, every context
\* generate reaches has a non-empty trigram entry, every sampling step is
\* resolved at the trigram level, and every three consecutive tokens of
\* the start-padded output were counted as a trigram.
C10_NoBackoffAfterTraining ==
  \A i \in Instances :
    Trained(i) =>
      /\ \A k \in 1..Len(levels[i]) : levels[i][k] = "trigram"
      /\ pc[i] = "sampling" =>
           Has(counts[i], context[i]) /\ Len(Get(counts[i], context[i])) > 0
      /\ \A k \in 1..Len(output_tokens[i]) :
           TriCount(counts[i], << PaddedOutput(i)[k], PaddedOutput(i)[k + 1] >>,
                    PaddedOutput(i)[k + 2]) > 0

\* two words were generated and the end marker was then sampled
C10_Witness ==
  /\ Trained(1)
  /\ pc[1] = "stopped"
  /\ Len(output_tokens[1]) >= 2
  /\ Len(levels[1]) = Len(output_tokens[1]) + 1

====
